---- MODULE Spec2Model ----
(***************************************************************************)
(* Model of componentpermissions/api.py: ComponentPermissionsPolicy.       *)
(*                                                                         *)
(* Python strings are sequences of one-character strings, so that the      *)
(* regular-expression rewriting, the splitting of the cc field and the     *)
(* formatting of permission names are computed, not assumed.  Python's     *)
(* None is the value None below wherever a string may be None.             *)
(***************************************************************************)
EXTENDS Naturals, Sequences, FiniteSets, Bags, TLC

VARIABLES
  catalog,          \* the component table read by model.Component.select: a set of names
  ticket_db,        \* the ticket table: id -> ticket.values; an id outside it is not found
  config,           \* the [component-permissions] options, fixed at construction
  account_manager,  \* self.account_manager: absent, or the (user, email) pairs it verifies
  session_email,    \* the session tables read by _get_email: username -> email or None
  last              \* the request being answered: the operation, its inputs, its result

vars == <<catalog, ticket_db, config, account_manager, session_email, last>>

env == <<catalog, ticket_db, config, account_manager, session_email>>

---------------------------------------------------------------------------
(* Bounds of the checked instances *)

MaxLen == 3

MaxOptions == 3

---------------------------------------------------------------------------
(* Strings *)

None == <<"None">>

LowerChars == <<"a","b","c","d","e","f","g","h","i","j","k","l","m",
                "n","o","p","q","r","s","t","u","v","w","x","y","z">>

UpperChars == <<"A","B","C","D","E","F","G","H","I","J","K","L","M",
                "N","O","P","Q","R","S","T","U","V","W","X","Y","Z">>

DigitChars == <<"0","1","2","3","4","5","6","7","8","9">>

Range(s) == {s[i] : i \in DOMAIN s}

LowerSet == Range(LowerChars)

UpperSet == Range(UpperChars)

\* the class [a-zA-Z0-9] of the regular expression
AlnumSet == LowerSet \cup UpperSet \cup Range(DigitChars)

IsAlnum(c) == c \in AlnumSet

ToUpper == [c \in LowerSet |-> UpperChars[CHOOSE i \in DOMAIN LowerChars : LowerChars[i] = c]]

ToLower == [c \in UpperSet |-> LowerChars[CHOOSE i \in DOMAIN UpperChars : UpperChars[i] = c]]

\* str.upper() on one character
UpperChar(c) == IF c \in LowerSet THEN ToUpper[c] ELSE c

\* str.lower() on one character
LowerChar(c) == IF c \in UpperSet THEN ToLower[c] ELSE c

Upper(s) == [i \in DOMAIN s |-> UpperChar(s[i])]

Lower(s) == [i \in DOMAIN s |-> LowerChar(s[i])]

\* the longest prefix of s made of characters the pattern matches is dropped
RECURSIVE SkipRun(_)
SkipRun(s) ==
  IF s = <<>> \/ IsAlnum(Head(s)) THEN s ELSE SkipRun(Tail(s))

\* re.sub('[^a-zA-Z0-9]+', '_', s): each maximal run of matches becomes one '_'
RECURSIVE ReSub(_)
ReSub(s) ==
  IF s = <<>> THEN <<>>
  ELSE IF IsAlnum(Head(s)) THEN <<Head(s)>> \o ReSub(Tail(s))
  ELSE <<"_">> \o ReSub(SkipRun(Tail(s)))

RECURSIVE LStrip(_, _)
LStrip(s, c) ==
  IF s # <<>> /\ Head(s) = c THEN LStrip(Tail(s), c) ELSE s

RECURSIVE RStrip(_, _)
RStrip(s, c) ==
  IF s # <<>> /\ s[Len(s)] = c THEN RStrip(SubSeq(s, 1, Len(s) - 1), c) ELSE s

\* str.strip(c)
Strip(s, c) == RStrip(LStrip(s, c), c)

\* Mutant: the edges are not stripped
Normalize_nostrip(component) == Upper(ReSub(component))

\* re.sub('[^a-zA-Z0-9]+', '_', component).strip('_').upper()
Normalize(component) == Upper(Strip(ReSub(component), "_"))

Prefix == <<"C","O","M","P","O","N","E","N","T","_">>

Suffix == <<"_","V","I","E","W">>

COMPONENT_VIEW == <<"C","O","M","P","O","N","E","N","T","_","V","I","E","W">>

SENSITIVE_VIEW == <<"S","E","N","S","I","T","I","V","E","_","V","I","E","W">>

TICKET_VIEW == <<"T","I","C","K","E","T","_","V","I","E","W">>

\* 'COMPONENT_%s_VIEW' % (name,) when name is not empty, else None
_get_permission_name(component) ==
  LET name == Normalize(component)
  IN  IF name # <<>> THEN Prefix \o name \o Suffix ELSE None

---------------------------------------------------------------------------
(* Names used by the checked instances *)

Anonymous == <<"a","n","o","n","y","m","o","u","s">>

Alice == <<"a","l","i","c","e">>

Bob == <<"b","o","b">>

Carol == <<"c","a","r","o","l">>

Dave == <<"d","a","v","e">>

AtXCom == <<"@","x",".","c","o","m">>

DaveEmail == Dave \o AtXCom

BobEmail == Bob \o AtXCom

Backend == <<"B","a","c","k","e","n","d">>

BackendLower == <<"b","a","c","k","e","n","d">>

Frontend == <<"F","r","o","n","t","e","n","d">>

COMPONENT_BACKEND_VIEW == Prefix \o <<"B","A","C","K","E","N","D">> \o Suffix

COMPONENT_FRONTEND_VIEW == Prefix \o <<"F","R","O","N","T","E","N","D">> \o Suffix

---------------------------------------------------------------------------
(* trac.util.as_bool and the values it is given *)

PyBool(b) == [type |-> "bool", val |-> b]

PyInt(n) == [type |-> "int", val |-> n]

PyStr(s) == [type |-> "str", val |-> s]

IsSpace(c) == c \in {" ", "\t", "\n", "\r"}

RECURSIVE LStripSpace(_)
LStripSpace(s) ==
  IF s # <<>> /\ IsSpace(Head(s)) THEN LStripSpace(Tail(s)) ELSE s

RECURSIVE RStripSpace(_)
RStripSpace(s) ==
  IF s # <<>> /\ IsSpace(s[Len(s)]) THEN RStripSpace(SubSeq(s, 1, Len(s) - 1)) ELSE s

\* float(s) succeeds; of the float syntax, the digit strings are modelled
DigitSet == Range(DigitChars)

IsNumber(s) == s # <<>> /\ \A i \in DOMAIN s : s[i] \in DigitSet

TrueWords == {<<"y","e","s">>, <<"t","r","u","e">>, <<"o","n">>}

\* as_bool(value): bool(float(value)) for a string that is a number, else whether
\* value.strip().lower() is one of 'yes', 'true', 'on'; bool(value) for the rest
as_bool(value) ==
  CASE value.type = "bool" -> value.val
    [] value.type = "int" -> value.val # 0
    [] value.type = "str" ->
         IF IsNumber(value.val)
           THEN \E i \in DOMAIN value.val : value.val[i] # "0"
           ELSE Lower(RStripSpace(LStripSpace(value.val))) \in TrueWords

---------------------------------------------------------------------------
(* Tickets: a ticket is the function ticket.values, field name -> string *)

\* ticket[name]: self.values.get(name)
TicketGet(ticket, name) == IF name \in DOMAIN ticket THEN ticket[name] ELSE None

\* NotifyEmail.addrsep_re, '[;\s,]+'
IsAddrSep(c) == c \in {";", ","} \/ IsSpace(c)

RECURSIVE SkipAddrSep(_)
SkipAddrSep(s) ==
  IF s = <<>> \/ ~IsAddrSep(Head(s)) THEN s ELSE SkipAddrSep(Tail(s))

\* addrsep_re.split(s): the pieces between the runs of separators, empty ones included
RECURSIVE AddrSplit(_)
AddrSplit(s) ==
  IF s = <<>> THEN << <<>> >>
  ELSE IF IsAddrSep(Head(s)) THEN << <<>> >> \o AddrSplit(SkipAddrSep(Tail(s)))
  ELSE LET rest == AddrSplit(Tail(s))
       IN  << (<<Head(s)>> \o Head(rest)) >> \o Tail(rest)

NonEmpty(s) == s # <<>>

\* [user for user in NotifyEmail.addrsep_re.split(ticket['cc']) if user]
cc_list(ticket) == SelectSeq(AddrSplit(TicketGet(ticket, "cc")), NonEmpty)

\* _get_email: the email of the authenticated session of username, or None
_get_email(username) ==
  IF username \in DOMAIN session_email THEN session_email[username] ELSE None

\* lines 73-95: the owner, reporter, cc and cc e-mail rules, first match wins
BypassRules(ticket, username) ==
  IF config.allow_owner /\ TicketGet(ticket, "owner") = username THEN TRUE
  ELSE IF config.allow_reporter /\ TicketGet(ticket, "reporter") = username THEN TRUE
  ELSE IF ~config.allow_cc /\ ~config.allow_cc_email THEN FALSE
  ELSE IF config.allow_cc /\ username \in Range(cc_list(ticket)) THEN TRUE
  ELSE IF config.allow_cc_email
    THEN LET email == _get_email(username)
         IN  IF email # None /\ email # <<>> /\ email \in Range(cc_list(ticket))
               THEN IF account_manager.present
                      THEN <<username, email>> \in account_manager.verified
                      ELSE TRUE
               ELSE FALSE
  ELSE FALSE

\* Mutant: only the empty username is refused, 'anonymous' goes on to the rules
_get_bypass_anon(ticket, username) ==
  IF username = <<>> THEN FALSE ELSE BypassRules(ticket, username)

_get_bypass(ticket, username) ==
  IF username = <<>> \/ username = Anonymous THEN FALSE
  ELSE BypassRules(ticket, username)

---------------------------------------------------------------------------
(* IPermissionRequestor and IPermissionPolicy *)

\* Mutant: the 'if permission' test is dropped, None is appended too
get_permission_actions_unfiltered ==
  SetToBag({COMPONENT_VIEW})
    (+) [t \in {_get_permission_name(c) : c \in catalog} |->
           Cardinality({c \in catalog : _get_permission_name(c) = t})]

\* the list ['COMPONENT_VIEW'] + [the name of each component that has one], as the
\* bag of its elements: two components with one name contribute it twice
get_permission_actions ==
  LET named == {c \in catalog : _get_permission_name(c) # None}
  IN  SetToBag({COMPONENT_VIEW})
        (+) [t \in {_get_permission_name(c) : c \in named} |->
               Cardinality({c \in named : _get_permission_name(c) = t})]

\* the three results of a permission policy: None, False, True
Abstain == "None"

Deny == "False"

Allow == "True"

\* A resource is the chain <<itself, its parent, its grandparent, ...>>; None is
\* the empty chain.  A node is [realm, id] with id <<>> for None, <<n>> for n.

\* while resource: if resource.realm == 'ticket': break; resource = resource.parent
RECURSIVE FindTicketRealm(_)
FindTicketRealm(resource) ==
  IF resource = <<>> THEN <<>>
  ELSE IF Head(resource).realm = "ticket" THEN resource
  ELSE FindTicketRealm(Tail(resource))

\* not self.ticket_field_name or ticket.values.get(self.ticket_field_name, 0)
should_check_permissions(ticket) ==
  IF config.ticket_field_name = "" THEN PyBool(TRUE)
  ELSE IF config.ticket_field_name \in DOMAIN ticket
    THEN PyStr(ticket[config.ticket_field_name])
    ELSE PyInt(0)

\* model.Ticket(self.env, int(resource.id)) does not raise ResourceNotFound
TicketFound(resource) == Head(resource).id[1] \in DOMAIN ticket_db

LoadTicket(resource) == ticket_db[Head(resource).id[1]]

\* Mutant: a ticket that is not found is left to the other policies
ShouldCheck_failopen(resource) ==
  IF TicketFound(resource)
    THEN should_check_permissions(LoadTicket(resource))
    ELSE PyInt(0)

\* Mutant: the activation field is not consulted
ShouldCheck_always(resource) == PyInt(1)

\* should_check_permissions after the try block: 1 when the ticket is not found
ShouldCheck(resource) ==
  IF TicketFound(resource)
    THEN should_check_permissions(LoadTicket(resource))
    ELSE PyInt(1)

\* Mutant: the ticket's component is required whether or not it is an action
ComponentPermission_unlisted(resource) ==
  IF /\ TicketFound(resource)
     /\ as_bool(ShouldCheck(resource))
     /\ "component" \in DOMAIN LoadTicket(resource)
     /\ LoadTicket(resource)["component"] # <<>>
     /\ _get_permission_name(LoadTicket(resource)["component"]) # None
    THEN _get_permission_name(LoadTicket(resource)["component"])
    ELSE COMPONENT_VIEW

\* component_permission: 'COMPONENT_VIEW' unless line 134 holds
ComponentPermission(resource) ==
  IF /\ TicketFound(resource)
     /\ as_bool(ShouldCheck(resource))
     /\ "component" \in DOMAIN LoadTicket(resource)
     /\ LoadTicket(resource)["component"] # <<>>
     /\ BagIn(_get_permission_name(LoadTicket(resource)["component"]),
              get_permission_actions)
    THEN _get_permission_name(LoadTicket(resource)["component"])
    ELSE COMPONENT_VIEW

\* bypass: False unless line 136 is reached
Bypass(resource, username) ==
  IF TicketFound(resource) /\ as_bool(ShouldCheck(resource))
    THEN _get_bypass(LoadTicket(resource), username)
    ELSE FALSE

\* Mutant: only the component's own permission is looked for
CheckTicket_nooverride(resource, username, perm) ==
  IF /\ as_bool(ShouldCheck(resource))
     /\ ComponentPermission(resource) \notin perm
     /\ ~Bypass(resource, username)
    THEN Deny
    ELSE Abstain

\* lines 127-142, for the resource the loop stopped at
CheckTicket(resource, username, perm) ==
  IF /\ as_bool(ShouldCheck(resource))
     /\ ComponentPermission(resource) \notin perm
     /\ COMPONENT_VIEW \notin perm
     /\ ~Bypass(resource, username)
    THEN Deny
    ELSE Abstain

\* Mutant: a policy that grants to the holders of the permission
check_permission_grants(action, username, resource, perm) ==
  LET found == FindTicketRealm(resource)
  IN  IF BagIn(action, get_permission_actions) \/ action = SENSITIVE_VIEW THEN Abstain
      ELSE IF found # <<>> /\ Head(found).realm = "ticket" /\ Head(found).id # <<>>
        THEN IF CheckTicket(found, username, perm) = Deny THEN Deny ELSE Allow
        ELSE Abstain

\* Mutant: the sensitive-tickets guard is missing
check_permission_noguard(action, username, resource, perm) ==
  LET found == FindTicketRealm(resource)
  IN  IF BagIn(action, get_permission_actions) THEN Abstain
      ELSE IF found # <<>> /\ Head(found).realm = "ticket" /\ Head(found).id # <<>>
        THEN CheckTicket(found, username, perm)
        ELSE Abstain

check_permission(action, username, resource, perm) ==
  LET found == FindTicketRealm(resource)
  IN  IF BagIn(action, get_permission_actions) THEN Abstain
      ELSE IF action = SENSITIVE_VIEW THEN Abstain
      ELSE IF found # <<>> /\ Head(found).realm = "ticket" /\ Head(found).id # <<>>
        THEN CheckTicket(found, username, perm)
        ELSE Abstain

---------------------------------------------------------------------------
(* IRequestFilter *)

HandledTemplates == {"ticket_box.html", "ticket.html", "ticket_preview.html", "query.html"}

\* [component for component in options if self._get_permission_name(component) in req.perm]
FilterOptions(options, perm) ==
  LET Keep(component) == _get_permission_name(component) \in perm
  IN  SelectSeq(options, Keep)

\* for field in obj: if field['name'] == 'component': filter its options; break
FilterComponentField(obj, perm) ==
  IF \E i \in DOMAIN obj : obj[i].name = "component"
    THEN LET first == CHOOSE i \in DOMAIN obj :
                        /\ obj[i].name = "component"
                        /\ \A j \in 1..(i - 1) : obj[j].name # "component"
         IN  [obj EXCEPT ![first].options = FilterOptions(obj[first].options, perm)]
    ELSE obj

\* the list built from script_data['properties']: each property gets its name,
\* and the one named component has its options filtered
FilterProperties(properties, perm) ==
  [name \in DOMAIN properties |->
     IF name = "component"
       THEN [name |-> name, options |-> FilterOptions(properties[name].options, perm)]
       ELSE [name |-> name, options |-> properties[name].options]]

\* the (component, tickets) pairs whose component the user may see
FilterGroups(groups, perm) ==
  LET Keep(group) == _get_permission_name(group[1]) \in perm
  IN  SelectSeq(groups, Keep)

\* lines 151-171: data and script_data after the filtering
FilterData(data, script_data, perm) ==
  [data |->
     [fields |-> IF data.fields # <<>>
                   THEN FilterComponentField(data.fields, perm)
                   ELSE data.fields,
      query_group |-> data.query_group,
      groups |-> IF data.query_group = "component"
                   THEN FilterGroups(data.groups, perm)
                   ELSE data.groups],
   script_data |->
     IF DOMAIN script_data # {} THEN FilterProperties(script_data, perm) ELSE script_data]

\* Mutant: the activation field name is not looked at
post_process_request_anyfield(template, data, script_data, perm) ==
  IF /\ config.hide_components
     /\ COMPONENT_VIEW \notin perm
     /\ template \in HandledTemplates
    THEN FilterData(data, script_data, perm)
    ELSE [data |-> data, script_data |-> script_data]

post_process_request(template, data, script_data, perm) ==
  IF /\ config.hide_components
     /\ config.ticket_field_name = ""
     /\ COMPONENT_VIEW \notin perm
     /\ template \in HandledTemplates
    THEN FilterData(data, script_data, perm)
    ELSE [data |-> data, script_data |-> script_data]

---------------------------------------------------------------------------
(* The request being answered *)

Idle == [op |-> "idle"]

\* the host takes the answer; the engine holds no state between calls
Return ==
  /\ last.op # "idle"
  /\ last' = Idle
  /\ UNCHANGED env

---------------------------------------------------------------------------
(* The policy with the component catalog and the tickets changing under it *)

Flags == [allow_owner : BOOLEAN, allow_reporter : BOOLEAN,
          allow_cc : BOOLEAN, allow_cc_email : BOOLEAN]

MakeConfig(field, flags, hide) ==
  [ticket_field_name |-> field, allow_owner |-> flags.allow_owner,
   allow_reporter |-> flags.allow_reporter, allow_cc |-> flags.allow_cc,
   allow_cc_email |-> flags.allow_cc_email, hide_components |-> hide]

NoAccountManager == [present |-> FALSE, verified |-> {}]

MaxComponents == 2

Dashes == <<"-","-","-">>

\* Backend and backend have one permission name, --- has none
ComponentNames == {Backend, BackendLower, Dashes}

TicketIds == {1}

PolicyTickets ==
  {f @@ c @@ [owner |-> o, reporter |-> Bob, cc |-> <<>>] :
     o \in {Alice},
     c \in {<<>>, [component |-> <<>>], [component |-> Backend], [component |-> Dashes]},
     f \in {<<>>, [private |-> <<"0">>], [private |-> <<"n","o">>],
            [private |-> <<"t","r","u","e">>]}}

PolicyConfigs ==
  {MakeConfig(field, [allow_owner |-> o, allow_reporter |-> FALSE,
                      allow_cc |-> FALSE, allow_cc_email |-> FALSE], FALSE) :
     field \in {"", "private"}, o \in BOOLEAN}

Ticket1 == [realm |-> "ticket", id |-> <<1>>]

TicketNoId == [realm |-> "ticket", id |-> <<>>]

WikiPage == [realm |-> "wiki", id |-> <<7>>]

Attachment == [realm |-> "attachment", id |-> <<3>>]

PolicyResources ==
  {<<>>, <<Ticket1>>, <<TicketNoId>>, <<WikiPage>>, <<Attachment, Ticket1>>,
   <<Attachment, TicketNoId, Ticket1>>}

PolicyActions == {TICKET_VIEW, COMPONENT_VIEW, SENSITIVE_VIEW, COMPONENT_BACKEND_VIEW}

PolicyUsers == {Alice, Bob, Anonymous}

PolicyPerms ==
  {{}, {COMPONENT_VIEW}, {COMPONENT_BACKEND_VIEW}, {TICKET_VIEW, COMPONENT_FRONTEND_VIEW}}

\* an administrator adds a component
AddComponent(n) ==
  /\ last.op = "idle"
  /\ n \notin catalog
  /\ Cardinality(catalog) < MaxComponents
  /\ catalog' = catalog \cup {n}
  /\ UNCHANGED <<ticket_db, config, account_manager, session_email, last>>

\* an administrator removes a component; its tickets keep the name
RemoveComponent(n) ==
  /\ last.op = "idle"
  /\ n \in catalog
  /\ catalog' = catalog \ {n}
  /\ UNCHANGED <<ticket_db, config, account_manager, session_email, last>>

\* an administrator renames a component; its tickets follow
RenameComponent(old, new) ==
  /\ last.op = "idle"
  /\ old \in catalog
  /\ new \notin catalog
  /\ catalog' = (catalog \ {old}) \cup {new}
  /\ ticket_db' =
       [i \in DOMAIN ticket_db |->
          IF "component" \in DOMAIN ticket_db[i] /\ ticket_db[i]["component"] = old
            THEN [ticket_db[i] EXCEPT !["component"] = new]
            ELSE ticket_db[i]]
  /\ UNCHANGED <<config, account_manager, session_email, last>>

\* a ticket is created or changed
SaveTicket(id, ticket) ==
  /\ last.op = "idle"
  /\ ticket_db' = [i \in DOMAIN ticket_db \cup {id} |->
                     IF i = id THEN ticket ELSE ticket_db[i]]
  /\ ticket_db' # ticket_db
  /\ UNCHANGED <<catalog, config, account_manager, session_email, last>>

\* a ticket is deleted: loading it raises ResourceNotFound from now on
DeleteTicket(id) ==
  /\ last.op = "idle"
  /\ id \in DOMAIN ticket_db
  /\ ticket_db' = [i \in DOMAIN ticket_db \ {id} |-> ticket_db[i]]
  /\ UNCHANGED <<catalog, config, account_manager, session_email, last>>

CallGetPermissionActions ==
  /\ last.op = "idle"
  /\ last' = [op |-> "get_permission_actions", result |-> get_permission_actions]
  /\ UNCHANGED env

CallCheckPermission(action, username, resource, perm) ==
  /\ last.op = "idle"
  /\ last' = [op |-> "check_permission", action |-> action, username |-> username,
              resource |-> resource, perm |-> perm,
              result |-> check_permission(action, username, resource, perm)]
  /\ UNCHANGED env

Init ==
  /\ catalog = {}
  /\ ticket_db = <<>>
  /\ config \in PolicyConfigs
  /\ account_manager = NoAccountManager
  /\ session_email = <<>>
  /\ last = Idle

Next ==
  \/ \E n \in ComponentNames : AddComponent(n)
  \/ \E n \in ComponentNames : RemoveComponent(n)
  \/ \E old \in ComponentNames, new \in ComponentNames : RenameComponent(old, new)
  \/ \E id \in TicketIds, t \in PolicyTickets : SaveTicket(id, t)
  \/ \E id \in TicketIds : DeleteTicket(id)
  \/ CallGetPermissionActions
  \/ \E a \in PolicyActions, u \in PolicyUsers, r \in PolicyResources, p \in PolicyPerms :
       CallCheckPermission(a, u, r, p)
  \/ Return

Spec == Init /\ [][Next]_vars

---------------------------------------------------------------------------
(* What the claims say of check_permission and get_permission_actions *)

Checked == last.op = "check_permission"

\* the place in the chain of the nearest resource of the ticket realm, 0 if none
TicketIndex(r) ==
  IF \E i \in DOMAIN r : r[i].realm = "ticket"
    THEN CHOOSE i \in DOMAIN r :
           r[i].realm = "ticket" /\ \A j \in 1..(i - 1) : r[j].realm # "ticket"
    ELSE 0

\* the resource resolves to a ticket resource with a concrete id
Governed(r) == TicketIndex(r) # 0 /\ r[TicketIndex(r)].id # <<>>

GovernedId(r) == r[TicketIndex(r)].id[1]

\* the tokens of the components now in the catalog, and COMPONENT_VIEW
EnumeratedTokens ==
  {COMPONENT_VIEW} \cup ({_get_permission_name(c) : c \in catalog} \ {None})

Guarded(action) == action \in EnumeratedTokens \/ action = SENSITIVE_VIEW

\* the activation field name is empty or the field's value parses as true
IsActive(ticket) ==
  \/ config.ticket_field_name = ""
  \/ /\ config.ticket_field_name \in DOMAIN ticket
     /\ as_bool(PyStr(ticket[config.ticket_field_name]))

\* the token the claim requires of the caller for an active ticket
RequiredToken(ticket) ==
  LET component == TicketGet(ticket, "component")
  IN  IF /\ component # None
         /\ component # <<>>
         /\ _get_permission_name(component) \in EnumeratedTokens
        THEN _get_permission_name(component)
        ELSE COMPONENT_VIEW

\* C1: check_permission never grants: its result is Abstain (None) or Deny
\* (False), never Allow (True).
C1_NeverGrants == Checked => last.result \in {Abstain, Deny}

\* an active ticket whose component permission the caller holds: still no grant
C1_Witness ==
  /\ Checked
  /\ last.action = TICKET_VIEW
  /\ last.resource = <<Ticket1>>
  /\ 1 \in DOMAIN ticket_db
  /\ IsActive(ticket_db[1])
  /\ RequiredToken(ticket_db[1]) = COMPONENT_BACKEND_VIEW
  /\ last.perm = {COMPONENT_BACKEND_VIEW}
  /\ last.result = Abstain

NotFoundCase ==
  /\ Checked
  /\ ~Guarded(last.action)
  /\ Governed(last.resource)
  /\ GovernedId(last.resource) \notin DOMAIN ticket_db

\* C2, as claimed: when the ticket of the resource is not found, the result is
\* Deny whatever the granted permission set.
C2_Original == NotFoundCase => last.result = Deny

\* C2, amended: when the ticket of the resource is not found, the result is Deny
\* unless the granted permissions contain COMPONENT_VIEW, and Abstain if they
\* do, whatever the username and the configuration.
C2_FailClosed ==
  NotFoundCase =>
    last.result = IF COMPONENT_VIEW \in last.perm THEN Abstain ELSE Deny

\* the owner bypass is configured, the caller holds a component permission, the
\* ticket is gone: Deny
C2_Witness ==
  /\ NotFoundCase
  /\ config.allow_owner
  /\ config.ticket_field_name = "private"
  /\ last.username = Alice
  /\ last.perm = {COMPONENT_BACKEND_VIEW}
  /\ last.resource = <<Attachment, Ticket1>>
  /\ last.result = Deny

\* C3: for COMPONENT_VIEW, a token get_permission_actions returns now, or
\* SENSITIVE_VIEW, check_permission abstains for every username, resource and
\* permission set.
C3_RecursionGuards == Checked /\ Guarded(last.action) => last.result = Abstain

\* the token of a component listed under another spelling, asked of a ticket
\* that does not exist, with no permission at all
C3_Witness ==
  /\ Checked
  /\ last.action = COMPONENT_BACKEND_VIEW
  /\ catalog = {BackendLower}
  /\ last.resource = <<Ticket1>>
  /\ 1 \notin DOMAIN ticket_db
  /\ last.perm = {}
  /\ last.result = Abstain

\* C4: a caller whose permissions contain COMPONENT_VIEW is never denied.
C4_ViewOverrides ==
  Checked /\ COMPONENT_VIEW \in last.perm => last.result # Deny

\* an active Backend ticket, a caller with COMPONENT_VIEW only and no bypass
C4_Witness ==
  /\ Checked
  /\ last.action = TICKET_VIEW
  /\ last.resource = <<Ticket1>>
  /\ 1 \in DOMAIN ticket_db
  /\ IsActive(ticket_db[1])
  /\ RequiredToken(ticket_db[1]) = COMPONENT_BACKEND_VIEW
  /\ ~_get_bypass(ticket_db[1], last.username)
  /\ last.perm = {COMPONENT_VIEW}
  /\ last.result = Abstain

ActiveCase ==
  /\ Checked
  /\ ~Guarded(last.action)
  /\ Governed(last.resource)
  /\ GovernedId(last.resource) \in DOMAIN ticket_db
  /\ IsActive(ticket_db[GovernedId(last.resource)])

\* C5: on an existing active ticket the result is Deny exactly when the
\* permissions contain neither the required token nor COMPONENT_VIEW and the
\* user has no bypass, and Abstain otherwise; the required token is the one of
\* the ticket's component when that is not empty and its token is enumerated
\* now, and COMPONENT_VIEW in every other case.
C5_ActiveDecision ==
  ActiveCase =>
    LET ticket == ticket_db[GovernedId(last.resource)]
        denied == /\ RequiredToken(ticket) \notin last.perm
                  /\ COMPONENT_VIEW \notin last.perm
                  /\ ~_get_bypass(ticket, last.username)
    IN  last.result = IF denied THEN Deny ELSE Abstain

\* the ticket's component is no longer in the catalog: holding its token does
\* not prevent the Deny
C5_Witness ==
  /\ ActiveCase
  /\ catalog = {Dashes}
  /\ TicketGet(ticket_db[1], "component") = Backend
  /\ last.perm = {COMPONENT_BACKEND_VIEW}
  /\ last.result = Deny

\* C6: check_permission denies only if the nearest ticket resource of the
\* chain has a concrete id and its ticket is missing or active; so it abstains
\* when there is no such resource, and for an existing ticket that is not
\* active.
C6_DenyOnlyWhereEnforced ==
  Checked /\ last.result = Deny =>
    /\ Governed(last.resource)
    /\ \/ GovernedId(last.resource) \notin DOMAIN ticket_db
       \/ IsActive(ticket_db[GovernedId(last.resource)])

\* an activation field is configured and the ticket's value is '0': abstain,
\* though the caller holds nothing and has no bypass
C6_Witness ==
  /\ Checked
  /\ last.action = TICKET_VIEW
  /\ last.resource = <<Ticket1>>
  /\ 1 \in DOMAIN ticket_db
  /\ config.ticket_field_name = "private"
  /\ TicketGet(ticket_db[1], "private") = <<"0">>
  /\ TicketGet(ticket_db[1], "component") = Backend
  /\ Backend \in catalog
  /\ last.perm = {}
  /\ last.username = Anonymous
  /\ last.result = Abstain

\* C8: each call of get_permission_actions returns, as a set, COMPONENT_VIEW
\* and the token of every component in the catalog at that call that has one,
\* and nothing else; the token of a component that is not in the catalog is
\* returned only if a component of the catalog has the same token.
C8_LiveCatalog ==
  last.op = "get_permission_actions" =>
    LET returned == BagToSet(last.result)
    IN  /\ COMPONENT_VIEW \in returned
        /\ \A c \in catalog :
             _get_permission_name(c) # None => _get_permission_name(c) \in returned
        /\ \A t \in returned :
             t = COMPONENT_VIEW \/ \E c \in catalog : _get_permission_name(c) = t
        /\ None \notin returned
        /\ \A n \in ComponentNames \ catalog :
             _get_permission_name(n) \in returned =>
               \E c \in catalog : _get_permission_name(c) = _get_permission_name(n)

\* Backend is not in the catalog, backend and --- are: the token is returned
\* for backend, none for ---
C8_Witness ==
  /\ last.op = "get_permission_actions"
  /\ catalog = {BackendLower, Dashes}
  /\ BagToSet(last.result) = {COMPONENT_VIEW, COMPONENT_BACKEND_VIEW}

---------------------------------------------------------------------------
(* Permission-name derivation on its own *)

NameAlphabet == {"a", "B", "1", "-", " ", "_"}

RECURSIVE SeqsUpTo(_, _)
SeqsUpTo(S, n) ==
  IF n = 0 THEN {<<>>}
  ELSE LET shorter == SeqsUpTo(S, n - 1)
       IN  shorter \cup {Append(s, c) : s \in {t \in shorter : Len(t) = n - 1}, c \in S}

FrontEnd == <<"F","r","o","n","t"," ","E","n","d">>

A1B2 == <<"a","1"," ","b","-","2">>

DeriveNames == SeqsUpTo(NameAlphabet, MaxLen) \cup {FrontEnd, A1B2, Dashes}

CallGetPermissionName(n) ==
  /\ last.op = "idle"
  /\ last' = [op |-> "_get_permission_name", component |-> n,
              result |-> _get_permission_name(n)]
  /\ UNCHANGED env

InitDerive ==
  /\ catalog = {}
  /\ ticket_db = <<>>
  /\ config = <<>>
  /\ account_manager = <<>>
  /\ session_email = <<>>
  /\ last = Idle

NextDerive ==
  \/ \E n \in DeriveNames : CallGetPermissionName(n)
  \/ Return

SpecDerive == InitDerive /\ [][NextDerive]_vars

\* the maximal runs of letters and digits of s, in order
RECURSIVE Words(_)
Words(s) ==
  IF s = <<>> THEN <<>>
  ELSE IF ~IsAlnum(Head(s)) THEN Words(Tail(s))
  ELSE LET rest == Words(Tail(s))
       IN  IF Len(s) > 1 /\ IsAlnum(s[2])
             THEN <<(<<Head(s)>> \o Head(rest))>> \o Tail(rest)
             ELSE <<(<<Head(s)>>)>> \o rest

RECURSIVE JoinUnderscore(_)
JoinUnderscore(ws) ==
  IF ws = <<>> THEN <<>>
  ELSE IF Len(ws) = 1 THEN Head(ws)
  ELSE Head(ws) \o <<"_">> \o JoinUnderscore(Tail(ws))

\* the name the claim describes: the upper-cased words of n joined by one '_'
ExpectedCore(n) == JoinUnderscore([i \in DOMAIN Words(n) |-> Upper(Words(n)[i])])

\* C10: _get_permission_name(n) is None exactly when n holds no ASCII letter or
\* digit; otherwise it is 'COMPONENT_' + N + '_VIEW' with N the upper-cased
\* words of n joined by single underscores, N has no underscore at either
\* edge and no two in a row, and normalizing N again gives N; the three
\* examples of the specification give the stated tokens.
C10_Derivation ==
  last.op = "_get_permission_name" =>
    LET n == last.component
        r == last.result
        N == ExpectedCore(n)
    IN  /\ (r = None) <=> (\A i \in DOMAIN n : ~IsAlnum(n[i]))
        /\ r # None =>
             /\ r = Prefix \o N \o Suffix
             /\ N # <<>> /\ N[1] # "_" /\ N[Len(N)] # "_"
             /\ \A i \in 1..(Len(N) - 1) : ~(N[i] = "_" /\ N[i + 1] = "_")
             /\ \A i \in DOMAIN N : N[i] = "_" \/ (IsAlnum(N[i]) /\ UpperChar(N[i]) = N[i])
             /\ Normalize(N) = N
        /\ n = FrontEnd => r = Prefix \o <<"F","R","O","N","T","_","E","N","D">> \o Suffix
        /\ n = A1B2 => r = Prefix \o <<"A","1","_","B","_","2">> \o Suffix
        /\ n = Dashes => r = None

\* a name with punctuation at both edges and inside has been derived
C10_Witness ==
  /\ last.op = "_get_permission_name"
  /\ last.component = <<"-", "a", " ">>
  /\ last.result = Prefix \o <<"A">> \o Suffix

---------------------------------------------------------------------------
(* _get_bypass on its own *)

BypassAccountManagers ==
  {NoAccountManager,
   [present |-> TRUE, verified |-> {<<Dave, DaveEmail>>}],
   [present |-> TRUE, verified |-> {}]}

BypassSessions ==
  {(Dave :> DaveEmail) @@ (Bob :> BobEmail) @@ (Carol :> None) @@ (Alice :> <<>>),
   (Dave :> BobEmail) @@ (Anonymous :> DaveEmail)}

\* "carol, dave@x.com"
CcCarolDave == Carol \o <<",", " ">> \o DaveEmail

\* "anonymous;bob@x.com  carol"
CcAnonBobCarol == Anonymous \o <<";">> \o BobEmail \o <<" ", " ">> \o Carol

\* ", carolx,xdave@x.com;" : no token is a name or an e-mail of the instances
CcNear == <<",", " ">> \o Carol \o <<"x", ",", "x">> \o DaveEmail \o <<";">>

BypassCcs == {<<>>, CcCarolDave, CcAnonBobCarol, CcNear}

BypassTickets ==
  {[owner |-> o, reporter |-> r, cc |-> c] :
     o \in {Alice, Anonymous, <<>>}, r \in {Bob, Alice}, c \in BypassCcs}

BypassUsers == {Alice, Bob, Carol, Dave, Anonymous, <<>>}

CallGetBypass(ticket, username) ==
  /\ last.op = "idle"
  /\ last' = [op |-> "_get_bypass", ticket |-> ticket, username |-> username,
              result |-> _get_bypass(ticket, username)]
  /\ UNCHANGED env

InitBypass ==
  /\ catalog = {}
  /\ ticket_db = <<>>
  /\ config \in {MakeConfig("", f, FALSE) : f \in Flags}
  /\ account_manager \in BypassAccountManagers
  /\ session_email \in BypassSessions
  /\ last = Idle

NextBypass ==
  \/ \E t \in BypassTickets, u \in BypassUsers : CallGetBypass(t, u)
  \/ Return

SpecBypass == InitBypass /\ [][NextBypass]_vars

\* u is a non-empty token of cc: a separator-free piece of cc that no character
\* other than a separator touches on either side
IsCcToken(cc, u) ==
  /\ u # <<>>
  /\ \E i \in 1..Len(cc) :
       /\ i + Len(u) - 1 <= Len(cc)
       /\ SubSeq(cc, i, i + Len(u) - 1) = u
       /\ \A k \in DOMAIN u : ~IsAddrSep(u[k])
       /\ (i = 1 \/ IsAddrSep(cc[i - 1]))
       /\ (i + Len(u) - 1 = Len(cc) \/ IsAddrSep(cc[i + Len(u)]))

\* C7: _get_bypass(ticket, username) is true exactly when username is neither
\* empty nor 'anonymous' and the owner rule, the reporter rule, the cc rule or
\* the cc e-mail rule (verified when an account manager exists) applies.
C7_BypassTruthTable ==
  last.op = "_get_bypass" =>
    LET t == last.ticket
        u == last.username
        email == IF u \in DOMAIN session_email THEN session_email[u] ELSE None
    IN  last.result <=>
          /\ u # <<>>
          /\ u # Anonymous
          /\ \/ config.allow_owner /\ u = t.owner
             \/ config.allow_reporter /\ u = t.reporter
             \/ config.allow_cc /\ IsCcToken(t.cc, u)
             \/ /\ config.allow_cc_email
                /\ email # None
                /\ IsCcToken(t.cc, email)
                /\ (~account_manager.present \/ <<u, email>> \in account_manager.verified)

\* an unverified cc e-mail gives the bypass when no account manager exists
C7_Witness ==
  /\ last.op = "_get_bypass"
  /\ last.username = Dave
  /\ last.ticket.cc = CcCarolDave
  /\ ~config.allow_cc /\ config.allow_cc_email /\ ~config.allow_owner
  /\ ~account_manager.present
  /\ last.result = TRUE

---------------------------------------------------------------------------
(* post_process_request on its own *)

FilterNames == {Backend, Frontend, Dashes}

FilterOptionLists == SeqsUpTo(FilterNames, MaxOptions)

FilterPerms ==
  {{}, {COMPONENT_FRONTEND_VIEW}, {COMPONENT_BACKEND_VIEW, COMPONENT_FRONTEND_VIEW},
   {COMPONENT_VIEW}, {COMPONENT_VIEW, COMPONENT_FRONTEND_VIEW}}

FilterTemplates == {"ticket.html", "query.html", "wiki_view.html"}

\* the page data of a ticket or query page whose component field offers opts
PageData(opts, group) ==
  [fields |-> <<[name |-> "summary", options |-> <<>>],
                [name |-> "component", options |-> opts]>>,
   query_group |-> group,
   groups |-> [i \in DOMAIN opts |-> <<opts[i], i>>]]

PageScriptData(opts) ==
  [component |-> [options |-> opts], status |-> [options |-> <<Alice>>]]

\* a request for a page whose component field and groups offer opts
CallPostProcessRequest(template, opts, group, perm) ==
  LET data == PageData(opts, group)
      script_data == PageScriptData(opts)
  IN  /\ last.op = "idle"
      /\ last' = [op |-> "post_process_request", template |-> template, data |-> data,
                  script_data |-> script_data, perm |-> perm,
                  result |-> post_process_request(template, data, script_data, perm)]
      /\ UNCHANGED env

InitFilter ==
  /\ catalog = {}
  /\ ticket_db = <<>>
  /\ config \in {MakeConfig(field, [allow_owner |-> FALSE, allow_reporter |-> FALSE,
                                    allow_cc |-> FALSE, allow_cc_email |-> FALSE], hide) :
                   field \in {"", "private"}, hide \in BOOLEAN}
  /\ account_manager = NoAccountManager
  /\ session_email = <<>>
  /\ last = Idle

NextFilter ==
  \/ \E t \in FilterTemplates, o \in FilterOptionLists, g \in {"component", "status"},
        p \in FilterPerms :
       CallPostProcessRequest(t, o, g, p)
  \/ Return

SpecFilter == InitFilter /\ [][NextFilter]_vars

Visible(component, perm) == _get_permission_name(component) \in perm

\* out is what is left of in when exactly the entries with a visible component
\* are kept, in their order; components[i] is the component of in[i]
IsKept(out, in, components, perm) ==
  LET kept == {i \in DOMAIN in : Visible(components[i], perm)}
      Nth(k) == CHOOSE i \in kept : Cardinality({j \in kept : j <= i}) = k
  IN  /\ Len(out) = Cardinality(kept)
      /\ \A k \in 1..Len(out) : out[k] = in[Nth(k)]

GroupKeys(groups) == [i \in DOMAIN groups |-> groups[i][1]]

Filtered == last.op = "post_process_request"

FilterOn ==
  /\ config.hide_components
  /\ config.ticket_field_name = ""
  /\ last.template \in HandledTemplates

\* C9, as claimed: whenever hide_components is set, no activation field is
\* configured and the template is handled, every option and every component
\* group left has its derived token in the user's permissions.
C9_Original ==
  Filtered /\ FilterOn =>
    /\ \A i \in DOMAIN last.result.data.fields[2].options :
         Visible(last.result.data.fields[2].options[i], last.perm)
    /\ \A i \in DOMAIN last.result.script_data["component"].options :
         Visible(last.result.script_data["component"].options[i], last.perm)
    /\ last.data.query_group = "component" =>
         \A i \in DOMAIN last.result.data.groups :
           Visible(last.result.data.groups[i][1], last.perm)

\* C9, amended: when hide_components is set, no activation field is configured,
\* the template is handled and the user does not hold COMPONENT_VIEW, exactly the
\* options and component groups whose derived token the user holds are left,
\* in their order; when hide_components is unset, an activation field is
\* configured or the user holds COMPONENT_VIEW, options and groups are unchanged.
C9_VisibilityFilter ==
  Filtered =>
    LET in == last.data
        out == last.result.data
        props == last.result.script_data
    IN  /\ FilterOn /\ COMPONENT_VIEW \notin last.perm =>
             /\ IsKept(out.fields[2].options, in.fields[2].options, in.fields[2].options, last.perm)
             /\ out.fields[1] = in.fields[1]
             /\ IsKept(props["component"].options, last.script_data["component"].options,
                       last.script_data["component"].options, last.perm)
             /\ props["status"].options = last.script_data["status"].options
             /\ in.query_group = "component" => IsKept(out.groups, in.groups, GroupKeys(in.groups), last.perm)
             /\ in.query_group # "component" => out.groups = in.groups
             /\ \A i \in DOMAIN out.fields[2].options :
                  Visible(out.fields[2].options[i], last.perm)
             /\ in.fields[2].options = <<Backend, Frontend>>
                  /\ last.perm = {COMPONENT_FRONTEND_VIEW}
                  => out.fields[2].options = <<Frontend>>
        /\ \/ ~config.hide_components
           \/ config.ticket_field_name # ""
           \/ COMPONENT_VIEW \in last.perm
           => /\ out = in
              /\ \A n \in DOMAIN props : props[n].options = last.script_data[n].options

\* the example of the specification: [Backend, Frontend] becomes [Frontend]
C9_Witness ==
  /\ Filtered
  /\ FilterOn
  /\ last.data.fields[2].options = <<Backend, Frontend>>
  /\ last.data.query_group = "component"
  /\ last.perm = {COMPONENT_FRONTEND_VIEW}
  /\ last.result.data.fields[2].options = <<Frontend>>
  /\ last.result.data.groups = << <<Frontend, 2>> >>

====
